---- MODULE Spec2Model ----
(***************************************************************************)
(* EventuateClient (src/src/modules/EventuateClient.js): the STOMP         *)
(* connection lifecycle, the subscription and receipt tables, and the      *)
(* acknowledgment path of the client.                                      *)
(*                                                                         *)
(* One action is one run-to-completion turn of the Node.js event loop: a   *)
(* public method call, a timer callback, or a transport event handler,     *)
(* together with the promise reactions (microtasks) it makes runnable.     *)
(***************************************************************************)
EXTENDS Integers, Sequences, FiniteSets, TLC

\* ---------------------------------------------------------------- bounds
MaxSessions == 2      \* transport sessions (new Stomp(...)) ever created
MaxCalls == 2         \* subscribe() calls
MaxTokens == 2        \* frames delivered by the broker

\* ------------------------------------------------------- program constants
reconnectIntervalStart == 500
MaxReconnectInterval == 16000

\* ----------------------------------------------------------------- inputs
\* subscriberId arguments; "" is the empty (falsy) subscriberId
SubscriberIds == {"", "sub1", "sub2"}

\* entityTypesAndEvents arguments, as the list of <<key, event names>> of the
\* object: {}, {EntityA: []}, {EntityA: ['Created']}
Filters ==
  { <<>>,
    << <<"EntityA", {}>> >>,
    << <<"EntityA", {"Created"}>> >> }

\* bodies of delivered frames: lists of event records, each one decodable
\* ("event") or not ("malformed")
Bodies == { <<"event">>, <<"event", "event">>, <<"malformed", "event">> }

VARIABLES
  subscriptions,      \* this.subscriptions: list of entries in key insertion order
  receipts,           \* this.receipts: list of [receipt, h] in key insertion order
  reconnectInterval,  \* this.reconnectInterval
  stompClient,        \* this.stompClient: 0 is null, else a session
  connPromise,        \* this._connPromise: 0 is null, else a promise
  closed,             \* this.closed (undefined is FALSE)
  connectionCount,    \* this.connectionCount
  promises,           \* promises made by connectToStompServer: [state, reactions]
  sessions,           \* Stomp instances made by connectToStompServer
  timers,             \* setTimeout callbacks of reconnectStompServer still pending
  handles,            \* one entry per handle subscribe() returned: its closure,
                      \* its observer and what its callback was called with
  nextToken,          \* delivery tokens handed out by the broker so far
  ackLog,             \* tokens passed to stompClient.ack, in call order
  arrivals,           \* history: the tokens of the frames delivered, in order
  lastScheduled,      \* history: [delay, failures] of the last reconnect scheduled
  failures,           \* history: disconnects since the last socketConnected
  lastClose,          \* history: the last disconnect() call and its outcome
  closedOk,           \* history: some disconnect() call returned without raising
  lastSubscribe,      \* history: the last subscribe() call and its answer
  call                \* one call of a function of the client that keeps no state:
                      \* [op, arg, done, out]

vars == <<subscriptions, receipts, reconnectInterval, stompClient, connPromise,
          closed, connectionCount, promises, sessions, timers, handles,
          nextToken, ackLog, arrivals, lastScheduled, failures, lastClose,
          closedOk, lastSubscribe, call>>

clientVars == <<subscriptions, receipts, reconnectInterval, stompClient,
                connPromise, closed, connectionCount, promises, sessions, timers,
                handles, nextToken, ackLog, arrivals, lastScheduled, failures,
                lastClose, closedOk, lastSubscribe>>

\* no call of a stateless function is under way
NoCall == [op |-> "none", arg |-> <<>>, done |-> TRUE, out |-> <<>>]

\* ------------------------------------------------------------ constructor
Constructed ==
  /\ subscriptions = <<>>
  /\ receipts = <<>>
  /\ reconnectInterval = reconnectIntervalStart
  /\ stompClient = 0
  /\ connPromise = 0
  /\ closed = FALSE
  /\ connectionCount = 0
  /\ promises = <<>>
  /\ sessions = <<>>
  /\ timers = 0
  /\ handles = <<>>
  /\ nextToken = 1
  /\ ackLog = <<>>
  /\ arrivals = <<>>
  /\ lastScheduled = [delay |-> 0, failures |-> 0]
  /\ failures = 0
  /\ lastClose = [called |-> FALSE, raised |-> FALSE, attempted |-> FALSE,
                  afterOk |-> FALSE]
  /\ closedOk = FALSE
  /\ lastSubscribe = [called |-> FALSE, error |-> FALSE]

Init == Constructed /\ call = NoCall

\* ------------------------------------------------ collaborators' lifecycle
\* States of a Stomp session in which it can still emit events.
Live == {"connecting", "socketConnected", "connected"}

\* new Stomp(stompArgs); connect(): a session, its events wired to promise p
NewSession(p) ==
  [state |-> "connecting", promise |-> p, issued |-> <<>>, awaiting |-> {},
   closing |-> FALSE]

\* Stomp.subscribe(headers) on session sc: the SUBSCRIBE frame is sent and the
\* broker owes a RECEIPT frame for headers.receipt
StompSubscribe(ss, sc, headers) ==
  [ss EXCEPT ![sc].issued = Append(@, headers),
             ![sc].awaiting = @ \cup {headers.receipt}]

\* AckOrderTracker.add(token)
TrackerAdd(q, t) == Append(q, [token |-> t, completed |-> FALSE])

\* the completed prefix of a tracker queue, from position i
RECURSIVE CompletedPrefix(_, _)
CompletedPrefix(q, i) ==
  IF i <= Len(q) /\ q[i].completed THEN CompletedPrefix(q, i + 1) ELSE i - 1

\* AckOrderTracker.ack(token): [queue after the call, tokens returned]
TrackerAck(q, t) ==
  LET marked == [i \in DOMAIN q |->
                   IF q[i].token = t THEN [q[i] EXCEPT !.completed = TRUE]
                   ELSE q[i]]
      n == CompletedPrefix(marked, 1)
  IN [queue |-> SubSeq(marked, n + 1, Len(marked)),
      released |-> [i \in 1..n |-> marked[i].token]]

\* ------------------------------------------------------------- the tables
\* position of subscriberId's key in this.subscriptions, 0 when absent
RECURSIVE IndexOf(_, _, _)
IndexOf(subs, sid, i) ==
  IF i > Len(subs) THEN 0
  ELSE IF subs[i].subscriberId = sid THEN i
  ELSE IndexOf(subs, sid, i + 1)

\* this.subscriptions.hasOwnProperty(subscriberId)
HasSubscription(subs, sid) == IndexOf(subs, sid, 1) # 0

\* position of a receipt id in this.receipts, 0 when absent
RECURSIVE ReceiptIndex(_, _, _)
ReceiptIndex(rs, r, i) ==
  IF i > Len(rs) THEN 0
  ELSE IF rs[i].receipt = r THEN i
  ELSE ReceiptIndex(rs, r, i + 1)

\* an addReceipt that records nothing
addReceipt_unrecorded(rs, r, h) == rs

\* addReceipt(receipt, clientSubscribeCallback); h names the callback
addReceipt(rs, r, h) ==
  LET i == ReceiptIndex(rs, r, 1)
  IN IF i = 0 THEN Append(rs, [receipt |-> r, h |-> h])
     ELSE [rs EXCEPT ![i].h = h]

\* the subscription entry addSubscription stores; u is the fresh uuid
SubscriptionEntry(sid, f, h, u) ==
  [subscriberId |-> sid,
   entityTypesAndEvents |-> f,
   h |-> h,
   headers |-> [id |-> <<"subscription-id", u>>,
                receipt |-> <<"receipt-id", u>>,
                destination |-> [entityTypesAndEvents |-> f,
                                 subscriberId |-> sid]]]

\* addSubscription: this.subscriptions afterwards
addSubscription(subs, sid, f, h, u) ==
  LET i == IndexOf(subs, sid, 1)
      e == SubscriptionEntry(sid, f, h, u)
  IN IF i = 0 THEN Append(subs, e) ELSE [subs EXCEPT ![i] = e]

\* doClientSubscribe(subscriberId): the sessions afterwards
doClientSubscribe(ss, sc, subs, sid) ==
  IF ~HasSubscription(subs, sid) THEN ss          \* logged
  ELSE IF sc = 0 THEN ss                          \* TypeError on null
  ELSE StompSubscribe(ss, sc, subs[IndexOf(subs, sid, 1)].headers)

\* a resubscribe loop that leaves after its first subscription
resubscribeAll_firstOnly(ss, sc, subs, i) ==
  IF i > Len(subs) \/ i > 1 THEN ss
  ELSE doClientSubscribe(ss, sc, subs, subs[i].subscriberId)

\* reconnectStompServer, success continuation: for (subscriberId in subscriptions)
RECURSIVE resubscribeAll(_, _, _, _)
resubscribeAll(ss, sc, subs, i) ==
  IF i > Len(subs) THEN ss
  ELSE resubscribeAll(doClientSubscribe(ss, sc, subs, subs[i].subscriberId),
                      sc, subs, i + 1)

\* reconnectStompServer, failure continuation: for (receipt in receipts)
RECURSIVE failAllReceipts(_, _, _)
failAllReceipts(hs, rs, i) ==
  IF i > Len(rs) THEN hs
  ELSE failAllReceipts([hs EXCEPT ![rs[i].h].cb = Append(@, "failure")],
                       rs, i + 1)

\* ---------------------------------------------------------------- promises
\* One continuation of connectToStompServer().then(onOk, onErr), run on a
\* world w = [sessions, handles].
\*   kind "subscribe": observableCreateAndSubscribe's then(doClientSubscribe, callback)
\*   kind "reconnect": reconnectStompServer's then(resubscribe, fail receipts)
RunReaction(w, r, outcome, sc, subs, rs) ==
  IF r.kind = "subscribe" THEN
    IF outcome = "resolved"
    THEN [w EXCEPT !.sessions =
            doClientSubscribe(@, sc, subs, w.handles[r.h].subscriberId)]
    ELSE [w EXCEPT !.handles[r.h].cb = Append(@, "failure")]
  ELSE
    IF outcome = "resolved"
    THEN [w EXCEPT !.sessions = resubscribeAll(@, sc, subs, 1)]
    ELSE [w EXCEPT !.handles = failAllReceipts(@, rs, 1)]

\* the continuations of a settled promise, in the order they were attached
RECURSIVE RunReactions(_, _, _, _, _, _, _)
RunReactions(w, rq, i, outcome, sc, subs, rs) ==
  IF i > Len(rq) THEN w
  ELSE RunReactions(RunReaction(w, rq[i], outcome, sc, subs, rs),
                    rq, i + 1, outcome, sc, subs, rs)

\* promise.then(...): queued while pending, run in the same turn when settled
Then(ps, w, p, r, sc, subs, rs) ==
  IF ps[p].state = "pending"
  THEN [promises |-> [ps EXCEPT ![p].reactions = Append(@, r)], w |-> w]
  ELSE [promises |-> ps, w |-> RunReaction(w, r, ps[p].state, sc, subs, rs)]

\* ------------------------------------------------------ connectToStompServer
\* a connect that does not look at the memoized promise
connectToStompServer_unmemoized ==
  LET p == Len(promises) + 1
      s == Len(sessions) + 1
  IN IF closed THEN
       [p |-> p, connPromise |-> p,
        promises |-> Append(promises, [state |-> "rejected", reactions |-> <<>>]),
        sessions |-> sessions, stompClient |-> stompClient]
     ELSE
       [p |-> p, connPromise |-> p,
        promises |-> Append(promises, [state |-> "pending", reactions |-> <<>>]),
        sessions |-> Append(sessions, NewSession(p)), stompClient |-> s]

\* The call on the current state: the promise returned (p) and the fields it
\* leaves behind. The executor runs inside the call (new Promise).
connectToStompServer ==
  LET p == Len(promises) + 1
      s == Len(sessions) + 1
  IN IF connPromise # 0 THEN
       [p |-> connPromise, connPromise |-> connPromise, promises |-> promises,
        sessions |-> sessions, stompClient |-> stompClient]
     ELSE IF closed THEN
       [p |-> p, connPromise |-> p,
        promises |-> Append(promises, [state |-> "rejected", reactions |-> <<>>]),
        sessions |-> sessions, stompClient |-> stompClient]
     ELSE
       [p |-> p, connPromise |-> p,
        promises |-> Append(promises, [state |-> "pending", reactions |-> <<>>]),
        sessions |-> Append(sessions, NewSession(p)), stompClient |-> s]

\* the call makes no session past the bound on sessions
CanConnect == connPromise # 0 \/ closed \/ Len(sessions) < MaxSessions

\* connectToStompServer().then(r): all fields the turn leaves behind
ConnectThen(r, hs, subs, rs) ==
  LET c == connectToStompServer
      t == Then(c.promises,
                [sessions |-> c.sessions, handles |-> hs],
                c.p, r, c.stompClient, subs, rs)
  IN /\ connPromise' = c.connPromise
     /\ stompClient' = c.stompClient
     /\ promises' = t.promises
     /\ sessions' = t.w.sessions
     /\ handles' = t.w.handles

\* ------------------------------------------------------------- public API
\* subscribe(subscriberId, entityTypesAndEvents, callback): the checks of the
\* call; the returned observable is cold
ValidSubscribe(sid, f) == ~(sid = "" \/ Len(f) = 0)

Subscribe(sid, f) ==
  /\ Len(handles) < MaxCalls
  /\ handles' =
       IF ValidSubscribe(sid, f)
       THEN Append(handles,
              [subscriberId |-> sid, filter |-> f, observed |-> FALSE,
               tracker |-> <<>>, events |-> <<>>, stopped |-> FALSE,
               cb |-> <<>>])
       ELSE handles                  \* return callback(new Error(...))
  /\ lastSubscribe' = [called |-> TRUE, error |-> ~ValidSubscribe(sid, f)]
  /\ UNCHANGED <<subscriptions, receipts, reconnectInterval, stompClient,
                 connPromise, closed, connectionCount, promises, sessions, timers,
                 nextToken, ackLog, arrivals, lastScheduled, failures, lastClose,
                 closedOk,
                 call>>

\* observable.subscribe(observer): createFn of handle h runs
Observe(h) ==
  /\ h \in DOMAIN handles
  /\ ~handles[h].observed
  /\ CanConnect
  /\ LET u == Len(receipts) + 1
         sid == handles[h].subscriberId
     IN /\ receipts' = addReceipt(receipts, <<"receipt-id", u>>, h)
        /\ subscriptions' =
             addSubscription(subscriptions, sid, handles[h].filter, h, u)
        /\ ConnectThen([kind |-> "subscribe", h |-> h],
                       [handles EXCEPT ![h].observed = TRUE],
                       subscriptions', receipts')
  /\ UNCHANGED <<reconnectInterval, closed, connectionCount, timers,
                 nextToken, ackLog, arrivals, lastScheduled, failures, lastClose,
                 closedOk, lastSubscribe,
                 call>>

\* acknowledge(ack) of handle h
Acknowledge(h, t) ==
  /\ h \in DOMAIN handles
  /\ \E i \in DOMAIN handles[h].events : handles[h].events[i].ack = t
  /\ LET r == TrackerAck(handles[h].tracker, t)
     IN /\ handles' = [handles EXCEPT ![h].tracker = r.queue]
        /\ ackLog' = IF stompClient = 0 THEN ackLog   \* TypeError on null
                     ELSE ackLog \o r.released
  /\ UNCHANGED <<subscriptions, receipts, reconnectInterval, stompClient,
                 connPromise, closed, connectionCount, promises, sessions, timers,
                 nextToken, arrivals, lastScheduled, failures, lastClose, closedOk, lastSubscribe,
                 call>>

\* disconnect(): this.closed is set, then the invariant is tested
Disconnect ==
  /\ closed' = TRUE
  /\ lastClose' = [called |-> TRUE, raised |-> connPromise = 0,
                   attempted |-> promises # <<>>, afterOk |-> closedOk]
  /\ closedOk' = (closedOk \/ connPromise # 0)
  /\ sessions' = IF connPromise # 0 /\ stompClient # 0
                 THEN [sessions EXCEPT ![stompClient].closing = TRUE]
                 ELSE sessions
  /\ UNCHANGED <<subscriptions, receipts, reconnectInterval, stompClient,
                 connPromise, connectionCount, promises, timers, handles, nextToken,
                 ackLog, arrivals, lastScheduled, failures, lastSubscribe,
                 call>>

\* ------------------------------------------------------- transport events
\* stompClient.on('socketConnected')
SocketConnected(s) ==
  /\ s \in DOMAIN sessions
  /\ sessions[s].state = "connecting"
  /\ sessions' = [sessions EXCEPT ![s].state = "socketConnected"]
  /\ reconnectInterval' = reconnectIntervalStart
  /\ failures' = 0
  /\ UNCHANGED <<subscriptions, receipts, stompClient, connPromise, closed,
                 connectionCount, promises, timers, handles, nextToken, ackLog, arrivals,
                 lastScheduled, lastClose, closedOk, lastSubscribe,
                 call>>

\* stompClient.on('connected'): resolve(), then the continuations waiting
Connected(s) ==
  /\ s \in DOMAIN sessions
  /\ sessions[s].state = "socketConnected"
  /\ LET p == sessions[s].promise
         w == RunReactions(
                [sessions |-> [sessions EXCEPT ![s].state = "connected"],
                 handles |-> handles],
                promises[p].reactions, 1, "resolved", stompClient,
                subscriptions, receipts)
     IN /\ promises' = [promises EXCEPT ![p] =
                          [state |-> "resolved", reactions |-> <<>>]]
        /\ sessions' = w.sessions
        /\ handles' = w.handles
  /\ connectionCount' = connectionCount + 1
  /\ UNCHANGED <<subscriptions, receipts, reconnectInterval, stompClient,
                 connPromise, closed, timers, nextToken, ackLog, arrivals, lastScheduled,
                 failures, lastClose, closedOk, lastSubscribe,
                 call>>

\* the interval the 'disconnected' handler leaves in this.reconnectInterval
NextInterval(i) == IF i < MaxReconnectInterval THEN i * 2 ELSE i

\* a 'disconnected' handler that reconnects without looking at this.closed
Disconnected_alwaysReconnect(s) ==
  /\ s \in DOMAIN sessions
  /\ sessions[s].state \in Live
  /\ sessions' = [sessions EXCEPT ![s].state = "disconnected",
                                 ![s].issued = <<>>,
                                 ![s].awaiting = {}]
  /\ stompClient' = 0
  /\ connPromise' = 0
  /\ reconnectInterval' = NextInterval(reconnectInterval)
  /\ timers' = timers + 1
  /\ failures' = failures + 1
  /\ lastScheduled' = [delay |-> NextInterval(reconnectInterval),
                       failures |-> failures + 1]
  /\ UNCHANGED <<subscriptions, receipts, closed, connectionCount, promises,
                 handles, nextToken, ackLog, arrivals, lastClose, closedOk,
                 lastSubscribe,
                 call>>

\* stompClient.on('disconnected')
Disconnected(s) ==
  /\ s \in DOMAIN sessions
  /\ sessions[s].state \in Live
  /\ sessions' = [sessions EXCEPT ![s].state = "disconnected",
                                 ![s].issued = <<>>,
                                 ![s].awaiting = {}]
  /\ stompClient' = 0
  /\ connPromise' = 0
  /\ IF ~closed
     THEN /\ reconnectInterval' = NextInterval(reconnectInterval)
          /\ timers' = timers + 1
          /\ failures' = failures + 1
          /\ lastScheduled' = [delay |-> NextInterval(reconnectInterval),
                               failures |-> failures + 1]
     ELSE UNCHANGED <<reconnectInterval, timers, failures, lastScheduled>>
  /\ UNCHANGED <<subscriptions, receipts, closed, connectionCount, promises,
                 handles, nextToken, ackLog, arrivals, lastClose, closedOk,
                 lastSubscribe,
                 call>>

\* makeEvent(eventStr, ack): an event, or the error JSON.parse threw
makeEvent(rec, t, k) ==
  IF rec = "event" THEN [event |-> [ack |-> t, rec |-> k], error |-> FALSE]
  ELSE [event |-> [ack |-> t, rec |-> 0], error |-> TRUE]

\* a forEach over an observer that goes on emitting after its onError
RECURSIVE EmitRecords_afterError(_, _, _, _)
EmitRecords_afterError(hd, body, t, k) ==
  IF k > Len(body) THEN hd
  ELSE LET r == makeEvent(body[k], t, k)
           nx == IF r.error THEN [hd EXCEPT !.stopped = TRUE]
                 ELSE [hd EXCEPT !.events = Append(@, r.event)]
       IN EmitRecords_afterError(nx, body, t, k + 1)

\* messageCallback's body.forEach from record k on, for the observer of one
\* handle: observer.onNext / observer.onError; a stopped observer drops both
RECURSIVE EmitRecords(_, _, _, _)
EmitRecords(hd, body, t, k) ==
  IF k > Len(body) THEN hd
  ELSE LET r == makeEvent(body[k], t, k)
           nx == IF hd.stopped THEN hd
                 ELSE IF r.error THEN [hd EXCEPT !.stopped = TRUE]
                 ELSE [hd EXCEPT !.events = Append(@, r.event)]
       IN EmitRecords(nx, body, t, k + 1)

\* a messageCallback that emits without adding the token to the tracker
messageCallback_untracked(hd, body, t) == EmitRecords(hd, body, t, 1)

\* messageCallback(body, headers) of handle record hd
messageCallback(hd, body, t) ==
  EmitRecords([hd EXCEPT !.tracker = TrackerAdd(@, t)], body, t, 1)

\* stompClient.on('message') for a frame addressed to subscriber sid
Message(s, sid, body) ==
  /\ s \in DOMAIN sessions
  /\ sessions[s].state = "connected"
  /\ nextToken <= MaxTokens
  /\ \E i \in DOMAIN sessions[s].issued :
        sessions[s].issued[i].destination.subscriberId = sid
  /\ LET t == [subscriberId |-> sid, n |-> nextToken]
         i == IndexOf(subscriptions, sid, 1)
     IN handles' =
          IF i = 0 THEN handles                         \* logged
          ELSE [handles EXCEPT ![subscriptions[i].h] =
                  messageCallback(@, body, t)]
  /\ nextToken' = nextToken + 1
  /\ arrivals' = Append(arrivals, [subscriberId |-> sid, n |-> nextToken])
  /\ UNCHANGED <<subscriptions, receipts, reconnectInterval, stompClient,
                 connPromise, closed, connectionCount, promises, sessions, timers, ackLog,
                 lastScheduled, failures, lastClose, closedOk,
                 lastSubscribe,
                 call>>

\* stompClient.on('receipt')
Receipt(s, r) ==
  /\ s \in DOMAIN sessions
  /\ sessions[s].state = "connected"
  /\ r \in sessions[s].awaiting
  /\ sessions' = [sessions EXCEPT ![s].awaiting = @ \ {r}]
  /\ LET i == ReceiptIndex(receipts, r, 1)
     IN handles' = IF i = 0 THEN handles
                   ELSE [handles EXCEPT ![receipts[i].h].cb = Append(@, "receipt")]
  /\ UNCHANGED <<subscriptions, receipts, reconnectInterval, stompClient,
                 connPromise, closed, connectionCount, promises, timers, nextToken,
                 ackLog, arrivals, lastScheduled, failures, lastClose, closedOk, lastSubscribe,
                 call>>

\* the setTimeout callback of reconnectStompServer
ReconnectTimer ==
  /\ timers > 0
  /\ CanConnect
  /\ timers' = timers - 1
  /\ ConnectThen([kind |-> "reconnect"], handles, subscriptions, receipts)
  /\ UNCHANGED <<subscriptions, receipts, reconnectInterval, closed,
                 connectionCount, nextToken, ackLog, arrivals, lastScheduled, failures,
                 lastClose, closedOk, lastSubscribe,
                 call>>

\* ------------------------------------------------------------ the program
Tokens == {[subscriberId |-> sid, n |-> n] : sid \in SubscriberIds, n \in 1..MaxTokens}

ReceiptIds == {<<"receipt-id", u>> : u \in 1..MaxCalls}

Next ==
  \/ \E sid \in SubscriberIds, f \in Filters : Subscribe(sid, f)
  \/ \E h \in 1..MaxCalls : Observe(h)
  \/ \E h \in 1..MaxCalls, t \in Tokens : Acknowledge(h, t)
  \/ Disconnect
  \/ \E s \in 1..MaxSessions : SocketConnected(s)
  \/ \E s \in 1..MaxSessions : Connected(s)
  \/ \E s \in 1..MaxSessions : Disconnected(s)
  \/ \E s \in 1..MaxSessions, sid \in SubscriberIds, body \in Bodies :
        Message(s, sid, body)
  \/ \E s \in 1..MaxSessions, r \in ReceiptIds : Receipt(s, r)
  \/ ReconnectTimer

Spec == Init /\ [][Next]_vars

\* the subscribe calls alone that pass the input check, with one filter
Accepted == {"sub1", "sub2"} \X { << <<"EntityA", {"Created"}>> >> }

\* the connection lifecycle under accepted subscribe calls: no frame is
\* delivered
NextConn ==
  \/ \E c \in Accepted : Subscribe(c[1], c[2])
  \/ \E h \in 1..MaxCalls : Observe(h)
  \/ Disconnect
  \/ \E s \in 1..MaxSessions : SocketConnected(s)
  \/ \E s \in 1..MaxSessions : Connected(s)
  \/ \E s \in 1..MaxSessions : Disconnected(s)
  \/ \E s \in 1..MaxSessions, r \in ReceiptIds : Receipt(s, r)
  \/ ReconnectTimer

SpecConn == Init /\ [][NextConn]_vars

\* the connection lifecycle under every subscribe input
NextInput ==
  \/ \E sid \in SubscriberIds, f \in Filters : Subscribe(sid, f)
  \/ \E h \in 1..MaxCalls : Observe(h)
  \/ Disconnect
  \/ \E s \in 1..MaxSessions : SocketConnected(s)
  \/ \E s \in 1..MaxSessions : Connected(s)
  \/ \E s \in 1..MaxSessions : Disconnected(s)
  \/ \E s \in 1..MaxSessions, r \in ReceiptIds : Receipt(s, r)
  \/ ReconnectTimer

SpecInput == Init /\ [][NextInput]_vars

\* delivery and acknowledgment over drops and reconnects: the client is not closed
NextAck ==
  \/ \E sid \in SubscriberIds, f \in Filters : Subscribe(sid, f)
  \/ \E h \in 1..MaxCalls : Observe(h)
  \/ \E h \in 1..MaxCalls, t \in Tokens : Acknowledge(h, t)
  \/ \E s \in 1..MaxSessions : SocketConnected(s)
  \/ \E s \in 1..MaxSessions : Connected(s)
  \/ \E s \in 1..MaxSessions : Disconnected(s)
  \/ \E s \in 1..MaxSessions, sid \in SubscriberIds, body \in Bodies :
        Message(s, sid, body)
  \/ \E s \in 1..MaxSessions, r \in ReceiptIds : Receipt(s, r)
  \/ ReconnectTimer

SpecAck == Init /\ [][NextAck]_vars

\* delivery of frames over drops and reconnects under accepted subscribe
\* calls: nothing is acknowledged and the client is not closed
NextEmit ==
  \/ \E c \in Accepted : Subscribe(c[1], c[2])
  \/ \E h \in 1..MaxCalls : Observe(h)
  \/ \E s \in 1..MaxSessions : SocketConnected(s)
  \/ \E s \in 1..MaxSessions : Connected(s)
  \/ \E s \in 1..MaxSessions : Disconnected(s)
  \/ \E s \in 1..MaxSessions, sid \in SubscriberIds, body \in Bodies :
        Message(s, sid, body)
  \/ \E s \in 1..MaxSessions, r \in ReceiptIds : Receipt(s, r)
  \/ ReconnectTimer

SpecEmit == Init /\ [][NextEmit]_vars

\* -------------------------------------------------------------- Encryption
\* modules/Encryption is not among the sources: it is modelled from its
\* description and from test/Encryption-spec.js. Texts are sequences of
\* two-bit bytes and the block cipher is a keyed permutation of two-byte
\* blocks.
MaxText == 3          \* bytes of a plaintext

BlockLen == 2

Bytes == 0..3

Blocks == [1..BlockLen -> Bytes]

\* all texts of at most n bytes
Texts(n) == UNION {[1..k -> Bytes] : k \in 0..n}

encryptionPrefix == "__ENCRYPTED__"

\* the initialization vector of envelopes written without a salt
legacyIV == <<0, 0>>

\* the EncryptionStore of the tests: key id to secret
encryptionKeyStore == [keyId |-> 1, k1 |-> 2, k2 |-> 3]

KeyIds == {"keyId", "k1", "notExistingKeyId"}

\* bitwise exclusive or of two bytes
XorByte(a, b) ==
  (((a % 2) + (b % 2)) % 2) + 2 * (((a \div 2) + (b \div 2)) % 2)

XorBlock(x, y) == [i \in 1..BlockLen |-> XorByte(x[i], y[i])]

\* the block cipher under secret k, and its inverse
EncryptBlock(k, b) == <<(b[2] + k) % 4, (b[1] + 2 * k + 1) % 4>>

DecryptBlock(k, c) == <<(c[2] + 8 - (2 * k + 1)) % 4, (c[1] + 4 - k) % 4>>

\* block padding: p bytes of value p, p in 1..BlockLen
Pad(text) ==
  LET p == BlockLen - (Len(text) % BlockLen)
  IN text \o [i \in 1..p |-> p]

Unpad(padded) ==
  IF Len(padded) = 0 THEN padded
  ELSE SubSeq(padded, 1, Len(padded) - padded[Len(padded)])

\* the encoded form of a byte string, two digits a byte, and back
Encode(bs) ==
  [i \in 1..(2 * Len(bs)) |->
     IF i % 2 = 1 THEN bs[(i + 1) \div 2] \div 2 ELSE bs[i \div 2] % 2]

Decode(ds) ==
  [i \in 1..(Len(ds) \div 2) |-> 2 * ds[2 * i - 1] + ds[2 * i]]

\* CBC over the blocks of m from block i on; prev is the block chained in
RECURSIVE CbcEncrypt(_, _, _, _)
CbcEncrypt(k, prev, m, i) ==
  IF BlockLen * i > Len(m) THEN <<>>
  ELSE LET c == EncryptBlock(k, XorBlock(SubSeq(m, BlockLen * (i - 1) + 1,
                                                BlockLen * i), prev))
       IN c \o CbcEncrypt(k, c, m, i + 1)

RECURSIVE CbcDecrypt(_, _, _, _)
CbcDecrypt(k, prev, c, i) ==
  IF BlockLen * i > Len(c) THEN <<>>
  ELSE LET b == SubSeq(c, BlockLen * (i - 1) + 1, BlockLen * i)
       IN XorBlock(DecryptBlock(k, b), prev) \o CbcDecrypt(k, b, c, i + 1)

\* cipher(secret, iv, text): an iv of the wrong length is a CipherError
cipher(secret, iv, text) ==
  IF Len(iv) # BlockLen THEN [ok |-> FALSE, error |-> "CipherError"]
  ELSE [ok |-> TRUE, data |-> Encode(CbcEncrypt(secret, iv, Pad(text), 1))]

\* decipher(secret, iv, data)
decipher(secret, iv, data) ==
  IF Len(iv) # BlockLen THEN [ok |-> FALSE, error |-> "CipherError"]
  ELSE [ok |-> TRUE, text |-> Unpad(CbcDecrypt(secret, iv, Decode(data), 1))]

\* a findKey that hands on whatever the store answered, also no secret (0)
findKey_unchecked(keyId) ==
  [ok |-> TRUE,
   secret |-> IF keyId \in DOMAIN encryptionKeyStore
              THEN encryptionKeyStore[keyId] ELSE 0]

\* findKey(keyId): the secret, or the entity-deleted error when the store has none
findKey(keyId) ==
  IF keyId \in DOMAIN encryptionKeyStore
  THEN [ok |-> TRUE, secret |-> encryptionKeyStore[keyId]]
  ELSE [ok |-> FALSE, error |-> "EntityDeletedError"]

\* JSON.stringify of an object with the given fields, and the value JSON.parse
\* gives back for one field (<<>> when the field is absent)
Stringify(fields) == fields

RECURSIVE ParsedField(_, _, _)
ParsedField(json, key, i) ==
  IF i > Len(json) THEN <<>>
  ELSE IF json[i][1] = key THEN <<json[i][2]>>
  ELSE ParsedField(json, key, i + 1)

\* isEncrypted(value): the text begins with the prefix
isEncrypted(value) == Len(value) >= 1 /\ value[1] = encryptionPrefix

\* encrypt(keyId, plaintext) with the fresh salt the call drew
encrypt(keyId, plaintext, salt) ==
  LET k == findKey(keyId)
  IN IF ~k.ok THEN [ok |-> FALSE, error |-> k.error]
     ELSE LET c == cipher(k.secret, salt, plaintext)
          IN IF ~c.ok THEN [ok |-> FALSE, error |-> c.error]
             ELSE [ok |-> TRUE,
                   text |-> <<encryptionPrefix>> \o
                            Stringify(<< <<"encryptionKeyId", keyId>>,
                                         <<"data", c.data>>,
                                         <<"salt", salt>> >>)]

\* a decrypt that reads every envelope with the legacy iv
decrypt_legacyOnly(value) ==
  IF ~isEncrypted(value) THEN [ok |-> FALSE, error |-> "FormatError"]
  ELSE LET json == Tail(value)
           k == findKey(ParsedField(json, "encryptionKeyId", 1)[1])
       IN IF ~k.ok THEN [ok |-> FALSE, error |-> k.error]
          ELSE decipher(k.secret, legacyIV, ParsedField(json, "data", 1)[1])

\* decrypt(value)
decrypt(value) ==
  IF ~isEncrypted(value) THEN [ok |-> FALSE, error |-> "FormatError"]
  ELSE LET json == Tail(value)
           k == findKey(ParsedField(json, "encryptionKeyId", 1)[1])
           salt == ParsedField(json, "salt", 1)
           iv == IF salt # <<>> THEN salt[1] ELSE legacyIV
       IN IF ~k.ok THEN [ok |-> FALSE, error |-> k.error]
          ELSE decipher(k.secret, iv, ParsedField(json, "data", 1)[1])

\* envelopes written by hand, as the tests do: with and without a salt
Envelopes ==
  {<<encryptionPrefix>> \o
     Stringify(<< <<"encryptionKeyId", id>>, <<"data", d>> >>) :
       id \in KeyIds, d \in {Encode(b) : b \in Blocks}}

\* the calls of the Encryption module
EncryptCall ==
  /\ call.op = "encrypt"
  /\ ~call.done
  /\ \E salt \in Blocks :
       call' = [call EXCEPT !.done = TRUE,
                            !.out = encrypt(call.arg.keyId, call.arg.text, salt)]
  /\ UNCHANGED clientVars

\* decrypt of the envelope the encrypt call returned
DecryptResult ==
  /\ call.op = "encrypt"
  /\ call.done
  /\ call.out.ok
  /\ call' = [op |-> "decrypt",
              arg |-> [value |-> call.out.text, keyId |-> call.arg.keyId,
                       text |-> call.arg.text],
              done |-> TRUE,
              out |-> decrypt(call.out.text)]
  /\ UNCHANGED clientVars

\* decrypt of an envelope written by hand
DecryptCall ==
  /\ call.op = "decrypt"
  /\ ~call.done
  /\ call' = [call EXCEPT !.done = TRUE, !.out = decrypt(call.arg.value)]
  /\ UNCHANGED clientVars

CipherCall ==
  /\ call.op = "cipher"
  /\ ~call.done
  /\ call' = [call EXCEPT !.done = TRUE,
                          !.out = cipher(call.arg.secret, call.arg.iv,
                                         call.arg.text)]
  /\ UNCHANGED clientVars

\* decipher of the data the cipher call returned, same secret and iv
DecipherResult ==
  /\ call.op = "cipher"
  /\ call.done
  /\ call.out.ok
  /\ call' = [op |-> "decipher",
              arg |-> call.arg,
              done |-> TRUE,
              out |-> decipher(call.arg.secret, call.arg.iv, call.out.data)]
  /\ UNCHANGED clientVars

EncryptionCalls ==
  {[op |-> "encrypt", arg |-> [keyId |-> id, text |-> t], done |-> FALSE,
    out |-> <<>>] : id \in KeyIds, t \in Texts(MaxText)}
  \cup
  {[op |-> "decrypt", arg |-> [value |-> e], done |-> FALSE, out |-> <<>>] :
     e \in Envelopes}
  \cup
  {[op |-> "cipher", arg |-> [secret |-> k, iv |-> iv, text |-> t],
    done |-> FALSE, out |-> <<>>] :
     k \in 1..3, iv \in {<<1, 2>>, <<3, 0>>, <<0>>}, t \in Texts(MaxText)}

InitEncryption == Constructed /\ call \in EncryptionCalls

NextEncryption ==
  \/ EncryptCall
  \/ DecryptResult
  \/ DecryptCall
  \/ CipherCall
  \/ DecipherResult

SpecEncryption == InitEncryption /\ [][NextEncryption]_vars

\* ------------------------------------------------- create, update, loadEvents
MaxEvents == 2        \* events in the list passed to a call

\* JavaScript values, as far as the input checks look at them
Undefined == [type |-> "undefined"]

Null == [type |-> "null"]

Str(t) == [type |-> "string", text |-> t]

Num(n) == [type |-> "number", n |-> n]

Obj(keys) == [type |-> "object", keys |-> keys]

Arr(n) == [type |-> "array", len |-> n]

\* !v
Falsy(v) ==
  \/ v.type \in {"undefined", "null"}
  \/ v.type = "string" /\ v.text = ""
  \/ v.type = "number" /\ v.n = 0

\* typeof v
typeof(v) == IF v.type \in {"object", "array", "null"} THEN "object" ELSE v.type

\* JSON.parse(text) for the texts of the inputs; any other text throws
JSONparse(text) ==
  IF text = "{}" THEN [ok |-> TRUE, value |-> Obj({})]
  ELSE IF text = "{\"a\":1}" THEN [ok |-> TRUE, value |-> Obj({"a"})]
  ELSE IF text = "[1]" THEN [ok |-> TRUE, value |-> Arr(1)]
  ELSE IF text = "\"abc\"" THEN [ok |-> TRUE, value |-> Str("abc")]
  ELSE IF text = "null" THEN [ok |-> TRUE, value |-> Null]
  ELSE IF text = "5" THEN [ok |-> TRUE, value |-> Num(5)]
  ELSE [ok |-> FALSE, value |-> Undefined]

\* Object.keys(v).length; -1 when Object.keys throws (null, undefined)
KeysLength(v) ==
  IF v.type \in {"undefined", "null"} THEN -1
  ELSE IF v.type = "object" THEN Cardinality(v.keys)
  ELSE IF v.type = "array" THEN v.len
  ELSE IF v.type = "string" THEN Len(v.text)
  ELSE 0

\* the end of the callback of events.every: Object.keys(ed).length === 0
KeysVerdict(ed) ==
  IF KeysLength(ed) < 0 THEN "throws"
  ELSE IF KeysLength(ed) = 0 THEN "false"
  ELSE "true"

\* the callback of events.every for one event: "true", "false" or "throws"
checkEvent(e) ==
  IF Falsy(e.eventType) \/ Falsy(e.eventData) THEN "false"
  ELSE IF typeof(e.eventData) = "string" THEN
    LET r == JSONparse(e.eventData.text)
    IN IF ~r.ok THEN "false" ELSE KeysVerdict(r.value)
  ELSE IF typeof(e.eventData) = "object" THEN KeysVerdict(e.eventData)
  ELSE "false"

\* events.every(...) from element i on: stops at the first element not true
RECURSIVE every(_, _)
every(items, i) ==
  IF i > Len(items) THEN "true"
  ELSE IF checkEvent(items[i]) = "true" THEN every(items, i + 1)
  ELSE checkEvent(items[i])

\* checkEvents(events); events is [isArray, items]
checkEvents(events) ==
  IF ~events.isArray \/ Len(events.items) = 0 THEN "false"
  ELSE every(events.items, 1)

\* outcomes of a call: the failure handed to Result, the error the promise
\* executor threw, or the HTTP request issued
Failure == [failed |-> TRUE, error |-> "Error", requested |-> FALSE]

Thrown == [failed |-> TRUE, error |-> "TypeError", requested |-> FALSE]

Requested == [failed |-> FALSE, error |-> "none", requested |-> TRUE]

\* the events check shared by create and update: !this.checkEvents(_events)
AfterEventsCheck(events) ==
  IF checkEvents(events) = "throws" THEN Thrown
  ELSE IF checkEvents(events) = "false" THEN Failure
  ELSE Requested

\* create(entityTypeName, _events)
create(a) ==
  IF Falsy(a.entityTypeName) THEN Failure ELSE AfterEventsCheck(a.events)

\* loadEvents(entityTypeName, entityId)
loadEvents(a) ==
  IF Falsy(a.entityTypeName) \/ Falsy(a.entityId) THEN Failure ELSE Requested

\* an update that does not look at entityVersion
update_anyVersion(a) ==
  IF Falsy(a.entityTypeName) \/ Falsy(a.entityId) THEN Failure
  ELSE AfterEventsCheck(a.events)

\* update(entityTypeName, entityId, entityVersion, _events)
update(a) ==
  IF Falsy(a.entityTypeName) \/ Falsy(a.entityId) \/ Falsy(a.entityVersion)
  THEN Failure
  ELSE AfterEventsCheck(a.events)

\* the inputs
EventTypes == {Undefined, Str(""), Str("T")}

EventDatas ==
  {Undefined, Str(""), Str("{}"), Str("{\"a\":1}"), Str("[1]"), Str("\"abc\""),
   Str("null"), Str("oops"), Obj({}), Obj({"a"}), Arr(1), Num(5)}

EventValues == [eventType : EventTypes, eventData : EventDatas]

\* the event lists of at most n events over the set es, and a non-array
EventLists(es, n) ==
  {[isArray |-> FALSE, items |-> <<>>]} \cup
  {[isArray |-> TRUE, items |-> l] : l \in UNION {[1..k -> es] : k \in 0..n}}

\* events for the calls that take more than a list of events
EventSamples ==
  {[eventType |-> Str("T"), eventData |-> Obj({"a"})],
   [eventType |-> Str("T"), eventData |-> Str("{\"a\":1}")],
   [eventType |-> Str("T"), eventData |-> Undefined],
   [eventType |-> Str("T"), eventData |-> Str("null")]}

Names == {Undefined, Str(""), Str("x")}

Ids == {Undefined, Str("x")}

CommandCalls ==
  {[op |-> "checkEvents", arg |-> e, done |-> FALSE, out |-> <<>>] :
     e \in EventLists(EventValues, MaxEvents)}
  \cup
  {[op |-> "create", arg |-> [entityTypeName |-> n, events |-> e],
    done |-> FALSE, out |-> <<>>] :
     n \in Names, e \in EventLists(EventSamples, MaxEvents)}
  \cup
  {[op |-> "update",
    arg |-> [entityTypeName |-> n, entityId |-> i, entityVersion |-> v,
             events |-> e],
    done |-> FALSE, out |-> <<>>] :
     n \in Names, i \in Ids, v \in Ids,
     e \in EventLists(EventSamples, MaxEvents)}
  \cup
  {[op |-> "loadEvents", arg |-> [entityTypeName |-> n, entityId |-> i],
    done |-> FALSE, out |-> <<>>] : n \in Names, i \in Ids}

CheckEventsCall ==
  /\ call.op = "checkEvents"
  /\ ~call.done
  /\ call' = [call EXCEPT !.done = TRUE, !.out = checkEvents(call.arg)]
  /\ UNCHANGED clientVars

CreateCall ==
  /\ call.op = "create"
  /\ ~call.done
  /\ call' = [call EXCEPT !.done = TRUE, !.out = create(call.arg)]
  /\ UNCHANGED clientVars

UpdateCall ==
  /\ call.op = "update"
  /\ ~call.done
  /\ call' = [call EXCEPT !.done = TRUE, !.out = update(call.arg)]
  /\ UNCHANGED clientVars

LoadEventsCall ==
  /\ call.op = "loadEvents"
  /\ ~call.done
  /\ call' = [call EXCEPT !.done = TRUE, !.out = loadEvents(call.arg)]
  /\ UNCHANGED clientVars

InitCommands == Constructed /\ call \in CommandCalls

NextCommands ==
  \/ CheckEventsCall
  \/ CreateCall
  \/ UpdateCall
  \/ LoadEventsCall

SpecCommands == InitCommands /\ [][NextCommands]_vars

\* ================================================================ claims
LiveSessions == {s \in DOMAIN sessions : sessions[s].state \in Live}

\* C1: connection attempts are single-flight. At most one transport session is
\* connecting or connected at any time, it is the session of the memoized
\* promise, and while a promise is memoized no step makes a session or
\* memoizes another promise: every caller gets the promise already there.
SingleFlight ==
  [][/\ Cardinality(LiveSessions') <= 1
     /\ \A s \in LiveSessions' :
          stompClient' = s /\ connPromise' = sessions'[s].promise
     /\ connPromise # 0 =>
          /\ Len(sessions') = Len(sessions)
          /\ Len(promises') = Len(promises)
          /\ connPromise' \in {connPromise, 0}]_vars

\* C1 witness: two callers wait on the same attempt, still in progress
SharedAttempt ==
  \E p \in DOMAIN promises :
    /\ promises[p].state = "pending"
    /\ Len(promises[p].reactions) >= 2
    /\ connPromise = p
    /\ LiveSessions = {stompClient}

\* C2: for each subscriber, tokens reach the transport's ack call in arrival
\* order: a token is passed to stompClient.ack only after every token that
\* arrived earlier for the same subscriber has been passed.
AckInArrivalOrder ==
  \A i \in DOMAIN ackLog :
    \A n \in 1..(ackLog[i].n - 1) :
      arrivals[n].subscriberId = ackLog[i].subscriberId =>
        \E j \in 1..(i - 1) : ackLog[j] = arrivals[n]

\* the delay the k-th consecutive failure is said to get: 500, 1000, ..., 16000
RECURSIVE ClaimedDelay(_)
ClaimedDelay(k) ==
  IF k <= 1 THEN reconnectIntervalStart
  ELSE IF 2 * ClaimedDelay(k - 1) > MaxReconnectInterval
       THEN MaxReconnectInterval
       ELSE 2 * ClaimedDelay(k - 1)

\* C3: the reconnect delays after repeated failures are 500, 1000, 2000, 4000,
\* 8000, 16000, 16000, ...: the k-th consecutive failure since the last socket
\* establishment schedules its reconnect after min(500 * 2^(k-1), 16000) ms.
BackoffSequence ==
  lastScheduled.failures > 0 =>
    lastScheduled.delay = ClaimedDelay(lastScheduled.failures)

\* C4: every pending receipt is resolved at most once, and its entry leaves the
\* receipt table once it is resolved.
ReceiptResolvedOnce ==
  \A h \in DOMAIN handles :
    /\ Len(handles[h].cb) <= 1
    /\ Len(handles[h].cb) = 1 =>
         \A i \in DOMAIN receipts : receipts[i].h # h

\* a step in which the success continuation of a reconnect timer's connect
\* runs: the timer fires on a promise already resolved, or the promise the
\* timer's continuation waits on is resolved
ReconnectSucceeds ==
  \/ /\ timers' < timers
     /\ connPromise # 0
     /\ promises[connPromise].state = "resolved"
  \/ \E p \in DOMAIN promises :
       /\ promises[p].state = "pending"
       /\ promises'[p].state = "resolved"
       /\ \E k \in DOMAIN promises[p].reactions :
            promises[p].reactions[k].kind = "reconnect"

\* C5: when a reconnect attempt made by the reconnect timer succeeds, every
\* subscription in the registry at that moment is issued to the session that
\* is then current, with the headers the registry stores for it.
ResubscribeOnReconnect ==
  [][ReconnectSucceeds =>
       /\ stompClient' # 0
       /\ sessions'[stompClient'].state = "connected"
       /\ \A i \in DOMAIN subscriptions' :
            \E j \in DOMAIN sessions'[stompClient'].issued :
              /\ j > Len(sessions[stompClient'].issued)
              /\ sessions'[stompClient'].issued[j] = subscriptions'[i].headers]_vars

\* C5 witness: both subscriptions were confirmed on the first session, it
\* dropped, the reconnect timer has fired, the second session is connected and
\* both subscriptions have been issued on it again
Resubscribed ==
  /\ ~closed
  /\ timers = 0
  /\ Len(sessions) = 2
  /\ sessions[1].state = "disconnected"
  /\ sessions[2].state = "connected"
  /\ stompClient = 2
  /\ Len(subscriptions) = 2
  /\ \A h \in DOMAIN handles : handles[h].cb = <<"receipt">>
  /\ \A i \in DOMAIN subscriptions :
       /\ subscriptions[i].headers.receipt \in sessions[2].awaiting
       /\ \E j \in DOMAIN sessions[2].issued :
            sessions[2].issued[j] = subscriptions[i].headers

\* C6: a connect made while the client is closed fails at once. Whenever a
\* subscription is observed on a closed client, its connectToStompServer()
\* call makes no session and its failure continuation runs in the same turn,
\* so the subscribe callback is called with the failure.
ConnectWhileClosedFails ==
  [][\A h \in 1..MaxCalls :
       (closed /\ Observe(h)) =>
         /\ Len(sessions') = Len(sessions)
         /\ handles'[h].cb = Append(handles[h].cb, "failure")]_vars

\* C7: once disconnect() has been called, no step makes a transport session
\* and no step schedules a reconnect.
NoReconnectAfterClose ==
  [][closed =>
       /\ Len(sessions') = Len(sessions)
       /\ timers' <= timers
       /\ lastScheduled' = lastScheduled]_vars

\* C7 witness: the client is closed, the transport has reported the disconnect
\* of the session that was closed, and a connect made since then was refused
ClosedAndQuiet ==
  /\ closed
  /\ \E s \in DOMAIN sessions :
       sessions[s].closing /\ sessions[s].state = "disconnected"
  /\ \E p \in DOMAIN promises : promises[p].state = "rejected"

\* C8: close is idempotent: after a disconnect() that did not raise, no later
\* disconnect() raises, and the client stays closed.
SecondCloseSucceeds ==
  (lastClose.called /\ lastClose.afterOk) => (~lastClose.raised /\ closed)

\* C9: disconnect() raises the invariant violation exactly when no connection
\* attempt was ever made before the call.
CloseRaisesIffNeverConnected ==
  lastClose.called => (lastClose.raised <=> ~lastClose.attempted)

\* a filter that holds no entity-type/event-type pair
NoPair(f) == \A i \in DOMAIN f : f[i][2] = {}

\* C10: subscribe with an empty subscriberId, or with a filter that holds no
\* entity-type/event-type pair, answers with a validation error and leaves the
\* subscription table, the receipt table and the connection as they were.
InvalidSubscribeRejected ==
  [][\A sid \in SubscriberIds, f \in Filters :
       (Subscribe(sid, f) /\ (sid = "" \/ NoPair(f))) =>
         /\ lastSubscribe'.error
         /\ handles' = handles
         /\ UNCHANGED <<subscriptions, receipts, stompClient, connPromise, promises,
                 sessions>>]_vars

\* the headers stored for handle h, when its Subscription is the one stored
\* under its subscriberId
StoredFor(h) ==
  {subscriptions[i].headers : i \in {j \in DOMAIN subscriptions :
                                       subscriptions[j].h = h}}

\* the registration a first call leaves behind: one PendingReceipt bound to
\* the caller's callback, the Subscription under subscriberId with headers
\* {id, receipt, destination}, one connect in progress, nothing issued yet
Registered(h, sid) ==
  /\ Len(receipts') = 1
  /\ receipts'[1].h = h
  /\ Len(subscriptions') = 1
  /\ subscriptions'[1].subscriberId = sid
  /\ DOMAIN subscriptions'[1].headers = {"id", "receipt", "destination"}
  /\ subscriptions'[1].headers.receipt = receipts'[1].receipt
  /\ subscriptions'[1].headers.destination.subscriberId = sid
  /\ Len(sessions') = 1
  /\ sessions'[1].state = "connecting"
  /\ sessions'[1].issued = <<>>
  /\ Len(promises') = 1
  /\ connPromise' = 1

\* a step of stompClient.on('connected') of the first session
FirstSessionConnects ==
  /\ Len(sessions) >= 1
  /\ sessions[1].state = "socketConnected"
  /\ sessions'[1].state = "connected"

\* a step of stompClient.on('receipt') of the first session for receipt id r
ReceiptReported(r) ==
  /\ Len(sessions) >= 1
  /\ sessions[1].state = "connected"
  /\ sessions'[1].state = "connected"
  /\ r \in sessions[1].awaiting
  /\ sessions'[1].awaiting = sessions[1].awaiting \ {r}

\* the first session reaches connected: the call that opened it, if its
\* Subscription is still the one stored, has its request issued exactly once
IssuedOnceOnConnect ==
  \A h \in DOMAIN handles :
    (/\ FirstSessionConnects
     /\ promises[1].reactions # <<>>
     /\ promises[1].reactions[1] = [kind |-> "subscribe", h |-> h]
     /\ StoredFor(h) # {}) =>
       \A hd \in StoredFor(h) :
         Cardinality({j \in DOMAIN sessions'[1].issued :
                        sessions'[1].issued[j] = hd}) = 1

\* the transport reports a receipt id: the callback recorded for it is called
\* with the receipt
ResolvedByReceipt ==
  \A i \in DOMAIN receipts :
    ReceiptReported(receipts[i].receipt) =>
      handles'[receipts[i].h].cb = Append(handles[receipts[i].h].cb, "receipt")

\* C11 (as stated): a valid subscribe call made before any connection exists,
\* by itself, records a PendingReceipt, stores the Subscription under
\* subscriberId and triggers exactly one connect; once connected exactly one
\* subscribe request with headers {id, receipt, destination} is issued, and
\* the callback is resolved when the transport reports the receipt id.
SubscribeCallRegisters ==
  [][/\ (Len(handles') = Len(handles) + 1 /\ promises = <<>> /\ ~closed) =>
          Registered(Len(handles'), handles'[Len(handles')].subscriberId)
     /\ IssuedOnceOnConnect
     /\ ResolvedByReceipt]_vars

\* C11 (amended): the registration happens when the sequence the call returned
\* is first observed, not in the call. Observing it on a client that is not
\* closed and never connected records the PendingReceipt, stores the
\* Subscription and opens exactly one session; when that session reaches
\* connected the stored request is issued on it exactly once, and the callback
\* is called with the receipt when the transport reports its id.
ObserveRegisters ==
  [][/\ \A h \in DOMAIN handles :
          (/\ ~handles[h].observed
           /\ Len(handles') = Len(handles)
           /\ handles'[h].observed
           /\ promises = <<>>
           /\ ~closed) =>
            Registered(h, handles[h].subscriberId)
     /\ IssuedOnceOnConnect
     /\ ResolvedByReceipt]_vars

\* C11 witness: the first call was observed, the first session connected, its
\* one request was issued and confirmed, and the callback got the receipt
FirstSubscribeConfirmed ==
  /\ Len(sessions) = 1
  /\ sessions[1].state = "connected"
  /\ Len(handles) >= 1
  /\ handles[1].cb = <<"receipt">>
  /\ StoredFor(1) # {}
  /\ \A hd \in StoredFor(1) :
       /\ Cardinality({j \in DOMAIN sessions[1].issued :
                         sessions[1].issued[j] = hd}) = 1
       /\ hd.receipt \notin sessions[1].awaiting

\* both events of a two-record frame with token t are in the event list evs,
\* in record order
BothEmitted(evs, t) ==
  \E i \in DOMAIN evs :
    /\ i < Len(evs)
    /\ evs[i] = [ack |-> t, rec |-> 1]
    /\ evs[i + 1] = [ack |-> t, rec |-> 2]

\* C12: a frame with two event records emits two events in record order, and
\* the first acknowledge call for one of them (the second event's token, the
\* first event not yet acknowledged) causes no transport ack call: the ack
\* calls come only with the acknowledgment of the first event.
AckOfSecondEventWaits ==
  [][/\ \A s \in 1..MaxSessions, sid \in SubscriberIds :
          (/\ Message(s, sid, <<"event", "event">>)
           /\ HasSubscription(subscriptions, sid)) =>
            LET h == subscriptions[IndexOf(subscriptions, sid, 1)].h
            IN ~handles[h].stopped =>
                 /\ Len(handles'[h].events) = Len(handles[h].events) + 2
                 /\ BothEmitted(handles'[h].events,
                                [subscriberId |-> sid, n |-> nextToken])
     /\ \A h \in 1..MaxCalls, t \in Tokens :
          (/\ Acknowledge(h, t)
           /\ BothEmitted(handles[h].events, t)
           /\ handles[h].tracker = <<[token |-> t, completed |-> FALSE]>>) =>
            ackLog' = ackLog]_vars

\* position of the first record of body that does not decode, 0 when all do
RECURSIVE FirstMalformed(_, _)
FirstMalformed(body, k) ==
  IF k > Len(body) THEN 0
  ELSE IF body[k] = "malformed" THEN k
  ELSE FirstMalformed(body, k + 1)

\* C13: a record that fails to decode terminates the event sequence of the
\* subscription it was delivered to: the records before it are emitted, no
\* record after it in the same frame is, and nothing is emitted to that
\* sequence by any later step; a frame for a sequence that has not failed is
\* emitted in full whatever happened to the others, and changes no other
\* sequence.
StreamEndsOnDecodeError ==
  [][/\ \A h \in DOMAIN handles :
          handles[h].stopped =>
            /\ handles'[h].stopped
            /\ handles'[h].events = handles[h].events
     /\ \A s \in 1..MaxSessions, sid \in SubscriberIds, body \in Bodies :
          (Message(s, sid, body) /\ HasSubscription(subscriptions, sid)) =>
            LET h == subscriptions[IndexOf(subscriptions, sid, 1)].h
                n == FirstMalformed(body, 1)
            IN /\ ~handles[h].stopped =>
                    /\ handles'[h].stopped = (n # 0)
                    /\ Len(handles'[h].events) =
                         Len(handles[h].events)
                           + (IF n = 0 THEN Len(body) ELSE n - 1)
               /\ \A g \in DOMAIN handles \ {h} :
                    /\ handles'[g].events = handles[g].events
                    /\ handles'[g].stopped = handles[g].stopped]_vars

\* C13 witness: the first frame, for one subscriber, failed to decode and left
\* that sequence terminated and empty; a later frame for another subscriber
\* was emitted
OneStreamEndedOtherRuns ==
  /\ Len(handles) = 2
  /\ handles[1].stopped
  /\ handles[1].events = <<>>
  /\ ~handles[2].stopped
  /\ handles[2].events # <<>>
  /\ Len(arrivals) = 2
  /\ arrivals[1].subscriberId = handles[1].subscriberId
  /\ arrivals[2].subscriberId = handles[2].subscriberId

\* C14: an envelope round-trips and has the stated form. Decrypting what
\* encrypt returned for a key id the store resolves gives the plaintext back;
\* what encrypt returned is the prefix followed by the JSON of encryptionKeyId,
\* data and salt, where data is cipher(secret, salt, plaintext) for the salt
\* the envelope carries; and decipher(secret, iv, cipher(secret, iv, text)) is
\* text for every valid secret and iv.
EnvelopeRoundTrips ==
  /\ (call.op = "encrypt" /\ call.done
        /\ call.arg.keyId \in DOMAIN encryptionKeyStore) =>
       /\ call.out.ok
       /\ LET salt == ParsedField(Tail(call.out.text), "salt", 1)[1]
              c == cipher(encryptionKeyStore[call.arg.keyId], salt,
                          call.arg.text)
          IN call.out.text =
               <<encryptionPrefix>> \o
               Stringify(<< <<"encryptionKeyId", call.arg.keyId>>,
                            <<"data", c.data>>, <<"salt", salt>> >>)
  /\ (call.op = "decrypt" /\ call.done /\ "text" \in DOMAIN call.arg) =>
       /\ call.out.ok
       /\ call.out.text = call.arg.text
  /\ (call.op = "decipher" /\ call.done) =>
       /\ call.out.ok
       /\ call.out.text = call.arg.text

\* C14 witness: a plaintext of full length, which needs two blocks, came back
\* from decrypt(encrypt(...)) under a salt other than the legacy iv
LongTextRoundTripped ==
  /\ call.op = "decrypt"
  /\ call.done
  /\ "text" \in DOMAIN call.arg
  /\ Len(call.arg.text) = MaxText
  /\ call.out.ok
  /\ call.out.text = call.arg.text
  /\ ParsedField(Tail(call.arg.value), "salt", 1) # <<legacyIV>>

\* the outcome of a call refused for want of the key: the entity-deleted
\* error and neither ciphertext nor plaintext
KeyNotFound == [ok |-> FALSE, error |-> "EntityDeletedError"]

\* C15: when the key store does not resolve the key id, encrypt(keyId,
\* plaintext) and decrypt of a well-formed envelope carrying that
\* encryptionKeyId both fail with the entity-deleted error and give no
\* ciphertext and no plaintext.
UnknownKeyFails ==
  /\ (call.op = "encrypt" /\ call.done
        /\ call.arg.keyId \notin DOMAIN encryptionKeyStore) =>
       call.out = KeyNotFound
  /\ (call.op = "decrypt" /\ call.done
        /\ ParsedField(Tail(call.arg.value), "encryptionKeyId", 1)[1]
             \notin DOMAIN encryptionKeyStore) =>
       call.out = KeyNotFound

\* C15 witness: decrypt of an envelope naming a key the store does not have
\* was refused
UnknownKeyEnvelopeRefused ==
  /\ call.op = "decrypt"
  /\ call.done
  /\ ParsedField(Tail(call.arg.value), "encryptionKeyId", 1)
       = <<"notExistingKeyId">>
  /\ call.out = KeyNotFound

\* the input a call names as missing or invalid: an empty entityTypeName, a
\* missing entityId or entityVersion where the call takes one, or events that
\* checkEvents does not accept
InvalidInput ==
  \/ Falsy(call.arg.entityTypeName)
  \/ call.op \in {"update", "loadEvents"} /\ Falsy(call.arg.entityId)
  \/ call.op = "update" /\ Falsy(call.arg.entityVersion)
  \/ call.op \in {"create", "update"} /\ checkEvents(call.arg.events) # "true"

\* C16: create, update and loadEvents called with missing or invalid input
\* fail with an Error and issue no HTTP request.
InvalidInputFailsLocally ==
  (call.op \in {"create", "update", "loadEvents"} /\ call.done
    /\ InvalidInput) =>
      /\ call.out.failed
      /\ call.out.error \in {"Error", "TypeError"}
      /\ ~call.out.requested

\* C16 witness: an update with everything in place but entityVersion failed
\* without a request
UpdateWithoutVersionFailed ==
  /\ call.op = "update"
  /\ call.done
  /\ ~Falsy(call.arg.entityTypeName)
  /\ ~Falsy(call.arg.entityId)
  /\ Falsy(call.arg.entityVersion)
  /\ checkEvents(call.arg.events) = "true"
  /\ call.out = Failure

\* a record with at least one field
NonEmptyRecord(v) == v.type = "object" /\ v.keys # {}

\* an event as checkEvents is said to want it
EventAsClaimed(e) ==
  /\ e.eventType.type = "string"
  /\ e.eventType.text # ""
  /\ \/ NonEmptyRecord(e.eventData)
     \/ /\ e.eventData.type = "string"
        /\ JSONparse(e.eventData.text).ok
        /\ NonEmptyRecord(JSONparse(e.eventData.text).value)

\* C17: checkEvents(events) returns true if and only if events is a non-empty
\* sequence and every element has a non-empty eventType and an eventData that
\* is a record with at least one field or a string that parses as JSON into
\* one; for every other input it returns false.
CheckEventsAsClaimed ==
  (call.op = "checkEvents" /\ call.done) =>
    call.out =
      IF /\ call.arg.isArray
         /\ Len(call.arg.items) > 0
         /\ \A i \in DOMAIN call.arg.items : EventAsClaimed(call.arg.items[i])
      THEN "true" ELSE "false"

\* a step in which session s, opened by a connect of the reconnect timer,
\* reports 'disconnected' without having reached connected
ReconnectAttemptFails(s) ==
  /\ sessions[s].state \in {"connecting", "socketConnected"}
  /\ sessions'[s].state = "disconnected"
  /\ \E k \in DOMAIN promises[sessions[s].promise].reactions :
       promises[sessions[s].promise].reactions[k].kind = "reconnect"

\* C18: when a reconnect attempt fails at the transport level while the client
\* is not closed, the callback of every PendingReceipt still unresolved at
\* that moment is called with the failure.
FailedReconnectFailsReceipts ==
  [][\A s \in DOMAIN sessions :
       (ReconnectAttemptFails(s) /\ ~closed) =>
         \A i \in DOMAIN receipts :
           handles[receipts[i].h].cb = <<>> =>
             handles'[receipts[i].h].cb = <<"failure">>]_vars

\* C19: a subscriber whose receipt was confirmed by the transport never has
\* its callback called with a failure afterwards.
NoFailureAfterReceipt ==
  \A h \in DOMAIN handles :
    \A i, j \in DOMAIN handles[h].cb :
      (i < j /\ handles[h].cb[i] = "receipt") => handles[h].cb[j] # "failure"

\* ------------------------------------------------ connection, with fairness
\* The timer set by reconnectStompServer (setTimeout) fires. What the
\* transport reports is left to the transport.
SpecLive == Init /\ [][NextConn]_vars /\ WF_vars(ReconnectTimer)

\* a caller waits on the outcome of connect attempt p
Waiting(p) ==
  /\ p \in DOMAIN promises
  /\ promises[p].state = "pending"
  /\ promises[p].reactions # <<>>

Settled(p) == p \in DOMAIN promises /\ promises[p].state # "pending"

TransportConnected == \E s \in DOMAIN sessions : sessions[s].state = "connected"

\* C20: provided the transport eventually reaches connected or the client is
\* closed, every connect outcome a caller waits on eventually settles.
WaitersReleased ==
  \A p \in 1..(MaxSessions + 1) :
    [](Waiting(p) => (<>(TransportConnected \/ closed) => <>Settled(p)))

\* the events a step emits to handle h
NewEvents(h) ==
  IF h \in DOMAIN handles
  THEN SubSeq(handles'[h].events, Len(handles[h].events) + 1, Len(handles'[h].events))
  ELSE handles'[h].events

\* how often token t is in tracker q
TimesTracked(q, t) == Cardinality({i \in DOMAIN q : q[i].token = t})

\* C21: the token of every delivered message is added to the subscriber's
\* tracker exactly once, before any event of the message is emitted: the
\* delivery appends the token, uncompleted, to the tracker of the handle that
\* receives it and to no other, and every event a step emits carries a token
\* its tracker holds once.
TokenTrackedOnDelivery ==
  [][
      /\ nextToken' = nextToken + 1 =>
          LET t == arrivals'[Len(arrivals')]
              i == IndexOf(subscriptions, t.subscriberId, 1)
          IN \A h \in DOMAIN handles :
               handles'[h].tracker =
                 IF i # 0 /\ subscriptions[i].h = h
                 THEN Append(handles[h].tracker, [token |-> t, completed |-> FALSE])
                 ELSE handles[h].tracker
      /\ \A h \in DOMAIN handles' :
           \A k \in DOMAIN NewEvents(h) :
             TimesTracked(handles'[h].tracker, NewEvents(h)[k].ack) = 1
    ]_vars

\* a frame of two events was delivered and its one token is tracked
FrameTrackedOnce ==
  \E h \in DOMAIN handles :
    /\ Len(handles[h].events) = 2
    /\ handles[h].events[1].ack = handles[h].events[2].ack
    /\ handles[h].tracker = <<[token |-> handles[h].events[1].ack, completed |-> FALSE]>>

\* the tokens a step removes from the head of the tracker of handle h
Released(h) ==
  [i \in 1..(Len(handles[h].tracker) - Len(handles'[h].tracker)) |->
     handles[h].tracker[i].token]

\* C22: every token the tracker removes in response to acknowledge(token)
\* is passed to a transport ack call, in every connection state.
ReleasedTokensAcked ==
  [][\A h \in DOMAIN handles :
       Len(handles'[h].tracker) < Len(handles[h].tracker) =>
         ackLog' = ackLog \o Released(h)]_vars

\* C23: on any single transport session each registered Subscription is
\* issued to the transport at most once.
IssuedAtMostOnce ==
  \A s \in DOMAIN sessions :
    \A i, j \in DOMAIN sessions[s].issued :
      sessions[s].issued[i] = sessions[s].issued[j] => i = j

\* ------------------------------------------------------- requests and results
\* A create, update or loadEvents call whose input passed the check and whose
\* request is under way: call.arg.handler says whether the caller gave a
\* completion callback and whether that callback raises; call.out is the
\* Result of the call: the result.success / result.failure calls made on it,
\* and whether an exception left the transport's event handler.
Created == "{\"entityId\":\"x\",\"entityVersion\":\"v\",\"eventIds\":[\"v\"]}"

Partial == "{\"entityId\":\"x\"}"

Loaded == "{\"events\":[]}"

\* the response texts
ResponseTexts == {"", "oops", "null", "{}", Created, Partial, Loaded}

Statuses == {200, 500}

Handlers == {"none", "returns", "raises"}

\* JSON.parse(responseData)
ParseBody(text) ==
  IF text = Created
  THEN [ok |-> TRUE, value |-> Obj({"entityId", "entityVersion", "eventIds"})]
  ELSE IF text = Partial THEN [ok |-> TRUE, value |-> Obj({"entityId"})]
  ELSE IF text = Loaded THEN [ok |-> TRUE, value |-> Obj({"events"})]
  ELSE JSONparse(text)

\* body[field], for a body that is not null: is the field there
HasField(body, field) == body.type = "object" /\ field \in body.keys

\* result.success(value): the completion callback, when given, is called
\* within it, so its exception leaves result.success
success(sink, handler) ==
  [sink |-> [sink EXCEPT !.completions = Append(@, "success")],
   raised |-> handler = "raises"]

\* result.failure(err)
failure(sink, handler) ==
  [sink |-> [sink EXCEPT !.completions = Append(@, "failure")],
   raised |-> handler = "raises"]

\* statusCodeError(statusCode, message): is an error returned
statusCodeError(statusCode) == statusCode # 200

\* the callback create, update and loadEvents give to _request:
\* (err, httpResponse, jsonBody) => { ... }
responseCallback(op, err, statusCode, body, sink, handler) ==
  IF err \/ statusCodeError(statusCode) THEN failure(sink, handler)
  ELSE IF body.type \in {"null", "undefined"}
  THEN [sink |-> sink, raised |-> TRUE]            \* TypeError on null
  ELSE IF op = "loadEvents" THEN
    IF ~HasField(body, "events")
    THEN [sink |-> sink, raised |-> TRUE]          \* undefined.map
    ELSE success(sink, handler)
  ELSE IF ~(HasField(body, "entityId") /\ HasField(body, "entityVersion")
            /\ HasField(body, "eventIds"))
  THEN failure(sink, handler)
  ELSE success(sink, handler)

\* res.on('end'): try { callback(null, res, JSON.parse(responseData)) }
\* catch (err) { callback(err) }
responseEnd(op, statusCode, text, sink, handler) ==
  LET p == ParseBody(text)
      first == IF p.ok
               THEN responseCallback(op, FALSE, statusCode, p.value, sink, handler)
               ELSE [sink |-> sink, raised |-> TRUE]
  IN IF first.raised
     THEN responseCallback(op, TRUE, statusCode, Undefined, first.sink, handler)
     ELSE first

\* req.on('error'): callback(err)
requestError(op, sink, handler) ==
  responseCallback(op, TRUE, 0, Undefined, sink, handler)

NewResult == [completions |-> <<>>, uncaught |-> FALSE, outcome |-> <<>>]

RequestCalls ==
  {[op |-> o, arg |-> [handler |-> h], done |-> FALSE, out |-> NewResult] :
     o \in {"create", "update", "loadEvents"}, h \in Handlers}

RequestError ==
  /\ call.op \in {"create", "update", "loadEvents"}
  /\ ~call.done
  /\ LET r == requestError(call.op, call.out, call.arg.handler)
     IN call' = [call EXCEPT !.done = TRUE,
                             !.out = [r.sink EXCEPT !.uncaught = r.raised,
                                                    !.outcome = <<"error">>]]
  /\ UNCHANGED clientVars

ResponseEnd(statusCode, text) ==
  /\ call.op \in {"create", "update", "loadEvents"}
  /\ ~call.done
  /\ LET r == responseEnd(call.op, statusCode, text, call.out, call.arg.handler)
     IN call' = [call EXCEPT !.done = TRUE,
                             !.out = [r.sink EXCEPT !.uncaught = r.raised,
                                                    !.outcome = <<statusCode, text>>]]
  /\ UNCHANGED clientVars

InitRequest == Constructed /\ call \in RequestCalls

NextRequest ==
  \/ RequestError
  \/ \E statusCode \in Statuses, text \in ResponseTexts :
        ResponseEnd(statusCode, text)

SpecRequest == InitRequest /\ [][NextRequest]_vars

\* C24: each create, update or loadEvents call completes its result exactly
\* once, as success or as failure, for every transport outcome, also when
\* the completion handler raises.
CompletesExactlyOnce ==
  (call.op \in {"create", "update", "loadEvents"} /\ call.done) =>
    Len(call.out.completions) = 1

\* the same, for the calls whose completion handler does not raise
CompletesOnceUnlessHandlerRaises ==
  (call.op \in {"create", "update", "loadEvents"} /\ call.done
     /\ call.arg.handler # "raises") =>
    Len(call.out.completions) = 1

====
